---- MODULE Spec2Model ----
(***************************************************************************)
(* A model of the two algorithm drivers of the repository:                 *)
(*   SHORS/shors.py                 class ShorsAlgorithm                    *)
(*   DEUTSCH_JOZSA/deutsch_jozsa.py class DeutschJozsaAlgorithm             *)
(* The quantum simulator (AerSimulator) is an external collaborator.  For  *)
(* Shor it is modelled as returning any 2n-bit string as the most frequent *)
(* measurement; for Deutsch-Jozsa as the ideal, noiseless evolution of the *)
(* circuit that run() builds, followed by sampling.                        *)
(***************************************************************************)
EXTENDS Integers, Sequences, FiniteSets, TLC

\* ------------------------------------------------------------------ bounds
\* largest N handed to ShorsAlgorithm
MaxN == 21
\* the retry, draw and simulation counters saturate here (the code has none)
MaxCount == 2
\* largest n_qubits handed to DeutschJozsaAlgorithm
MaxQubits == 2
\* longest custom_bitstring handed to DeutschJozsaAlgorithm
MaxLen == 4
\* largest shot count handed to DeutschJozsaAlgorithm
MaxShots == 3

VARIABLES
    \* ---- ShorsAlgorithm
    N,            \* self.N
    n,            \* self.n
    pc,           \* position inside factor()
    a,            \* local a of the running factor() frame, 0 = not bound yet
    measurement,  \* local measurement, <<>> = not bound yet
    r,            \* local r, 0 = not bound yet
    result,       \* the pair factor() returned, <<>> = none yet
    via,          \* which return statement produced result
    retries,      \* recursive calls self.factor() made so far (saturating)
    draws,        \* calls of np.random.randint so far (saturating)
    simCalls,     \* calls of self.simulator.run so far (saturating)
    circuits,     \* QuantumCircuit objects built so far (saturating)
    simInAttempt, \* calls of self.simulator.run made by the running frame
    \* ---- DeutschJozsaAlgorithm
    djpc,         \* "new", "ready" (constructed), "simulating" (inside
                  \* self.simulator.run) or "error" (the constructor raised)
    args,         \* the arguments the constructor was called with
    raised,       \* the message of the ValueError raised, "" = none
    dj,           \* the object's fields
    qc,           \* gates of the last circuit built, in emission order
    psi,          \* the simulator's amplitudes, scaled by sqrt(2) per Hadamard
    ip,           \* gates of qc the simulator has applied
    djCircuits,   \* circuits built so far (saturating)
    djSimCalls,   \* calls of self.simulator.run so far (saturating)
    ctorCalls,    \* runs of __init__ so far
    classified,   \* what run() returned last, "" = not run
    validated     \* what validate_oracle() returned last, "" = not called

shorVars == <<N, n, pc, a, measurement, r, result, via, retries, draws,
              simCalls, circuits, simInAttempt>>
djVars == <<djpc, args, raised, dj, qc, psi, ip, djCircuits, djSimCalls,
            ctorCalls, classified, validated>>
vars == <<shorVars, djVars>>

\* ------------------------------------------------------- python built-ins
abs(i) == IF i < 0 THEN -i ELSE i

\* Euclid's algorithm on naturals
gcd_steps[i \in Nat, j \in Nat] == IF j = 0 THEN i ELSE gcd_steps[j, i % j]

\* math.gcd
gcd(i, j) == gcd_steps[abs(i), abs(j)]

\* b ** e % m by repeated multiplication
pow_steps[b \in Nat, e \in Nat, m \in Nat] ==
    IF e = 0 THEN 1 % m ELSE (b * pow_steps[b, e - 1, m]) % m

\* pow(b, e, m)
pow(b, e, m) == pow_steps[b, e, m]

\* len(bin(N)[2:])
RECURSIVE bit_length(_)
bit_length(i) == IF i <= 1 THEN 1 ELSE 1 + bit_length(i \div 2)

\* the value of the first k digits of the binary string s
RECURSIVE digits_value(_, _)
digits_value(s, k) ==
    IF k = 0 THEN 0
    ELSE 2 * digits_value(s, k - 1) + (IF s[k] = "1" THEN 1 ELSE 0)

\* int(s, 2) for a string of '0' and '1'
int2(s) == digits_value(s, Len(s))

\* Fraction(num, den): the pair in lowest terms
Fraction(num, den) == LET c == gcd(num, den) IN <<num \div c, den \div c>>

\* the while loop of Fraction.limit_denominator, on the tuple
\* <<p0, q0, p1, q1, n, d, max_denominator>>; it leaves <<p0, q0, p1, q1>>
convergents[t \in Seq(Int)] ==
    LET c == t[5] \div t[6]
        q2 == t[2] + c * t[4]
    IN  IF q2 > t[7]
        THEN <<t[1], t[2], t[3], t[4]>>
        ELSE convergents[<<t[3], t[4], t[1] + c * t[3], q2, t[6],
                           t[5] - c * t[6], t[7]>>]

\* limit_denominator without the comparison of the two bounds
limit_denominator_lower_bound(f, max_denominator) ==
    IF f[2] <= max_denominator THEN f
    ELSE LET cv == convergents[<<0, 1, 1, 0, f[1], f[2], max_denominator>>]
             k == (max_denominator - cv[2]) \div cv[4]
         IN  Fraction(cv[1] + k * cv[3], cv[2] + k * cv[4])

\* Fraction.limit_denominator(max_denominator) of the fraction f
limit_denominator(f, max_denominator) ==
    IF f[2] <= max_denominator THEN f
    ELSE LET cv == convergents[<<0, 1, 1, 0, f[1], f[2], max_denominator>>]
             p0 == cv[1]
             q0 == cv[2]
             p1 == cv[3]
             q1 == cv[4]
             k == (max_denominator - q0) \div q1
             bound1 == Fraction(p0 + k * p1, q0 + k * q1)
             bound2 == Fraction(p1, q1)
             \* abs(bound - self), both sides scaled by the denominators
             d1 == abs(bound1[1] * f[2] - f[1] * bound1[2]) * bound2[2]
             d2 == abs(bound2[1] * f[2] - f[1] * bound2[2]) * bound1[2]
         IN  IF d2 <= d1 THEN bound2 ELSE bound1

\* ----------------------------------------------------------- ShorsAlgorithm
\* saturating counter: the program itself counts nothing
Inc(c) == IF c < MaxCount THEN c + 1 ELSE c

\* the strings the collaborator can return as the most frequent measurement
Measurements(width) == [1..width -> {"0", "1"}]

\* self._classical_post_processing(measurement); the float quotient
\* int(measurement, 2) / 2 ** (2 * self.n) is exact while 2n <= 53, which
\* holds for every N up to MaxN, so Fraction(phase) is the exact quotient
_classical_post_processing(m) ==
    LET phase == Fraction(int2(m), 2 ^ (2 * n))
        frac == limit_denominator(phase, N)
    IN  frac[2]

\* return 2, self.N // 2
even_return == <<2, N \div 2>>

\* return g, self.N // g
gcd_return(g) == <<g, N \div g>>

\* the parity test with the comparison turned round
period_is_even(period) == period % 2 = 0

\* if r % 2 != 0
period_is_odd(period) == period % 2 # 0

\* x = pow(a, r//2, N); factor1 = gcd(x + 1, N); factor2 = gcd(x - 1, N)
candidate_factors(base, period) ==
    LET x == pow(base, period \div 2, N)
    IN  <<gcd(x + 1, N), gcd(x - 1, N)>>

\* a product check that accepts every pair
factors_unchecked(f) == FALSE

\* if factor1 * factor2 != self.N
factors_incorrect(f) == f[1] * f[2] # N

\* ShorsAlgorithm(N, shots), then the call of factor()
ShorInit ==
    /\ N \in 2..MaxN
    /\ n = bit_length(N)
    /\ pc = "factor"
    /\ a = 0
    /\ measurement = <<>>
    /\ r = 0
    /\ result = <<>>
    /\ via = ""
    /\ retries = 0
    /\ draws = 0
    /\ simCalls = 0
    /\ circuits = 0
    /\ simInAttempt = 0

\* a retry that gives up once the counter is full
retry_capped ==
    /\ retries < MaxCount
    /\ pc' = "factor"
    /\ a' = 0
    /\ measurement' = <<>>
    /\ r' = 0
    /\ simInAttempt' = 0
    /\ retries' = Inc(retries)
    /\ UNCHANGED <<N, n, result, via, draws, simCalls, circuits>>

\* return self.factor(): a new frame, whose locals are not bound yet
retry ==
    /\ pc' = "factor"
    /\ a' = 0
    /\ measurement' = <<>>
    /\ r' = 0
    /\ simInAttempt' = 0
    /\ retries' = Inc(retries)
    /\ UNCHANGED <<N, n, result, via, draws, simCalls, circuits>>

\* factor() without the shortcut for even N
factor_no_even_check ==
    /\ pc = "factor"
    /\ pc' = "draw"
    /\ UNCHANGED <<N, n, a, measurement, r, result, via, retries, draws,
                   simCalls, circuits, simInAttempt>>

\* if self.N % 2 == 0: return 2, self.N // 2
factor_even_check ==
    /\ pc = "factor"
    /\ IF N % 2 = 0
       THEN /\ result' = even_return
            /\ via' = "even"
            /\ pc' = "done"
       ELSE /\ pc' = "draw"
            /\ UNCHANGED <<result, via>>
    /\ UNCHANGED <<N, n, a, measurement, r, retries, draws, simCalls,
                   circuits, simInAttempt>>

\* the draw without the shortcut for a base that shares a factor with N
factor_draw_base_no_gcd ==
    /\ pc = "draw"
    /\ \E b \in 2..(N - 1) : a' = b
    /\ pc' = "quantum"
    /\ draws' = Inc(draws)
    /\ UNCHANGED <<N, n, measurement, r, result, via, retries, simCalls,
                   circuits, simInAttempt>>

\* a = np.random.randint(2, self.N); g = gcd(a, self.N); if g != 1: return
factor_draw_base ==
    /\ pc = "draw"
    /\ \E b \in 2..(N - 1) :
         /\ a' = b
         /\ IF gcd(b, N) # 1
            THEN /\ result' = gcd_return(gcd(b, N))
                 /\ via' = "gcd"
                 /\ pc' = "done"
            ELSE /\ pc' = "quantum"
                 /\ UNCHANGED <<result, via>>
    /\ draws' = Inc(draws)
    /\ UNCHANGED <<N, n, measurement, r, retries, simCalls, circuits,
                   simInAttempt>>

\* measurement = self._quantum_period_finding(a)
_quantum_period_finding ==
    /\ pc = "quantum"
    /\ \E m \in Measurements(2 * n) : measurement' = m
    /\ circuits' = Inc(circuits)
    /\ simCalls' = Inc(simCalls)
    /\ simInAttempt' = simInAttempt + 1
    /\ pc' = "post"
    /\ UNCHANGED <<N, n, a, r, result, via, retries, draws>>

\* r = self._classical_post_processing(measurement)
factor_post_processing ==
    /\ pc = "post"
    /\ r' = _classical_post_processing(measurement)
    /\ pc' = "odd"
    /\ UNCHANGED <<N, n, a, measurement, result, via, retries, draws,
                   simCalls, circuits, simInAttempt>>

\* if r % 2 != 0: return self.factor()
factor_odd_check ==
    /\ pc = "odd"
    /\ IF period_is_odd(r)
       THEN retry
       ELSE /\ pc' = "factors"
            /\ UNCHANGED <<N, n, a, measurement, r, result, via, retries,
                           draws, simCalls, circuits, simInAttempt>>

\* the candidate factors, the product check and the final return
factor_product_check ==
    /\ pc = "factors"
    /\ LET f == candidate_factors(a, r)
       IN  IF factors_incorrect(f)
           THEN retry
           ELSE /\ result' = f
                /\ via' = "period"
                /\ pc' = "done"
                /\ UNCHANGED <<N, n, a, measurement, r, retries, draws,
                               simCalls, circuits, simInAttempt>>

\* -------------------------------------------------- DeutschJozsaAlgorithm
\* custom_bitstring=None; a string is a sequence of one-character strings
None == <<"None">>

\* the strings of length len over the alphabet
Strings(alphabet, len) == [1..len -> alphabet]

\* the constructor arguments tried: custom_bitstring is read only when
\* oracle_type is 'custom', so the other types are given None or one string
CtorArgs ==
    { c \in [n_qubits : 0..MaxQubits,
             oracle_type : {"constant", "balanced", "custom", "other"},
             constant_value : 0..2,
             custom_bitstring :
                 {None} \cup UNION { Strings({"0", "1", "2"}, l) : l \in 0..MaxLen },
             shots : 0..MaxShots] :
        c.oracle_type # "custom" => c.custom_bitstring \in {None, <<"0", "1">>} }

\* the object before __init__ has run
NoObject ==
    [n_qubits |-> 0, oracle_type |-> "", constant_value |-> 0,
     custom_bitstring |-> None, shots |-> 0]

\* s.count(ch)
count(s, ch) == Cardinality({i \in 1..Len(s) : s[i] = ch})

\* the check of a supplied custom bitstring without the test of its characters
custom_bitstring_error_length_only(c) ==
    IF Len(c.custom_bitstring) # 2 ^ c.n_qubits
    THEN "Custom bitstring length must be 2^n"
    ELSE ""

\* the two checks of a supplied custom bitstring: "" when it passes
custom_bitstring_error(c) ==
    IF Len(c.custom_bitstring) # 2 ^ c.n_qubits
    THEN "Custom bitstring length must be 2^n"
    ELSE IF ~(\A i \in 1..Len(c.custom_bitstring) :
                  c.custom_bitstring[i] \in {"0", "1"})
    THEN "Custom bitstring must contain only 0 and 1"
    ELSE ""

\* the message of the first ValueError __init__ raises on c, "" when none
init_error(c) ==
    IF c.n_qubits <= 0 THEN "N must be a positive integer."
    ELSE IF c.oracle_type \notin {"constant", "balanced", "custom"}
    THEN "Oracle type must be one of: constant, balanced, custom"
    ELSE IF c.constant_value \notin {0, 1}
    THEN "Constant value must be 0 or 1."
    ELSE IF c.oracle_type = "custom" /\ c.custom_bitstring # None
            /\ custom_bitstring_error(c) # ""
    THEN custom_bitstring_error(c)
    ELSE IF c.shots <= 0 THEN "Number of shots must be a positive integer."
    ELSE ""

\* what _generate_random_balanced_oracle can leave in self.custom_bitstring
random_balanced_oracles(nq) ==
    { s \in Strings({"0", "1"}, 2 ^ nq) : count(s, "1") = (2 ^ nq) \div 2 }

\* DeutschJozsaAlgorithm(n_qubits, oracle_type, constant_value,
\*                       custom_bitstring, shots)
__init__ ==
    /\ djpc = "new"
    /\ \E c \in CtorArgs :
         /\ args' = c
         /\ raised' = init_error(c)
         /\ IF init_error(c) # ""
            THEN /\ djpc' = "error"
                 /\ dj' = NoObject
            ELSE /\ djpc' = "ready"
                 /\ IF c.oracle_type = "custom" /\ c.custom_bitstring = None
                    THEN \E s \in random_balanced_oracles(c.n_qubits) :
                            dj' = [c EXCEPT !.custom_bitstring = s]
                    ELSE dj' = c
    /\ ctorCalls' = ctorCalls + 1
    /\ UNCHANGED <<qc, psi, ip, djCircuits, djSimCalls, classified, validated>>

\* ---- gates: qubits 0..n-1 are the input register, qubit n is the output
Gate(name, qubits) == [gate |-> name, qubits |-> qubits]

\* the binary digits of i, least significant first
RECURSIVE format_b_reversed(_, _)
format_b_reversed(i, width) ==
    IF width = 0 THEN <<>>
    ELSE <<IF i % 2 = 1 THEN "1" ELSE "0">> \o format_b_reversed(i \div 2, width - 1)

\* format(i, '0{width}b'), for i < 2^width
RECURSIVE format_b(_, _)
format_b(i, width) ==
    IF width = 0 THEN <<>>
    ELSE format_b(i \div 2, width - 1) \o <<IF i % 2 = 1 THEN "1" ELSE "0">>

\* qc.h(register[i]) for i in range(nq)
RECURSIVE hadamards(_)
hadamards(nq) ==
    IF nq = 0 THEN <<>> ELSE hadamards(nq - 1) \o <<Gate("h", <<nq - 1>>)>>

\* qc.cx(qubits[i], target) for i in range(k)
RECURSIVE cx_chain(_, _)
cx_chain(k, target) ==
    IF k = 0 THEN <<>>
    ELSE cx_chain(k - 1, target) \o <<Gate("cx", <<k - 1, target>>)>>

\* qc.x(qubits[j]) for the first k positions j with binary[j] == '0'
RECURSIVE x_where_zero(_, _)
x_where_zero(binary, k) ==
    IF k = 0 THEN <<>>
    ELSE x_where_zero(binary, k - 1)
         \o (IF binary[k] = "0" THEN <<Gate("x", <<k - 1>>)>> ELSE <<>>)

\* the gates the custom branch emits for index i
custom_term(nq, i) ==
    LET binary == format_b(i, nq)
        flips == x_where_zero(binary, nq)
        controlled ==
            IF nq = 1 THEN Gate("cx", <<0, nq>>)
            ELSE Gate("mcx", [k \in 1..(nq + 1) |-> k - 1])
    IN  flips \o <<controlled>> \o flips

\* the custom branch for the indices below k
RECURSIVE custom_terms(_, _, _)
custom_terms(nq, bits, k) ==
    IF k = 0 THEN <<>>
    ELSE custom_terms(nq, bits, k - 1)
         \o (IF bits[k] = "1" THEN custom_term(nq, k - 1) ELSE <<>>)

\* self._create_oracle(qc, input_register, output_register[0])
_create_oracle(o) ==
    IF o.oracle_type = "constant"
    THEN (IF o.constant_value = 1 THEN <<Gate("x", <<o.n_qubits>>)>> ELSE <<>>)
    ELSE IF o.oracle_type = "balanced"
    THEN cx_chain(o.n_qubits, o.n_qubits)
    ELSE custom_terms(o.n_qubits, o.custom_bitstring, 2 ^ o.n_qubits)

\* the circuit without the bit-flip that prepares the output qubit in |1>
circuit_without_output_flip(o) ==
    hadamards(o.n_qubits + 1)
    \o _create_oracle(o)
    \o hadamards(o.n_qubits)
    \o <<Gate("measure", [k \in 1..o.n_qubits |-> k - 1])>>

\* the circuit that run() and get_circuit() build
circuit(o) ==
    <<Gate("x", <<o.n_qubits>>)>>
    \o hadamards(o.n_qubits + 1)
    \o _create_oracle(o)
    \o hadamards(o.n_qubits)
    \o <<Gate("measure", [k \in 1..o.n_qubits |-> k - 1])>>

\* ---- the simulator: ideal evolution of the basis amplitudes
\* the value of qubit q in basis state s
Bit(s, q) == (s \div (2 ^ q)) % 2

\* basis state s with qubit q set to b
SetBit(s, q, b) == s + (b - Bit(s, q)) * (2 ^ q)

\* every control qubit of gate g is 1 in basis state s
Fires(g, s) == \A k \in 1..(Len(g.qubits) - 1) : Bit(s, g.qubits[k]) = 1

\* the basis state that x, cx or mcx gate g maps basis state s to
permute(g, s) ==
    LET target == g.qubits[Len(g.qubits)]
    IN  IF Fires(g, s) THEN SetBit(s, target, 1 - Bit(s, target)) ELSE s

\* the amplitudes after gate g
apply_gate(g, amp) ==
    IF g.gate = "h"
    THEN LET q == g.qubits[1]
         IN  [s \in DOMAIN amp |->
                 amp[SetBit(s, q, 0)]
                 + (IF Bit(s, q) = 1 THEN 0 - 1 ELSE 1) * amp[SetBit(s, q, 1)]]
    ELSE [s \in DOMAIN amp |-> amp[permute(g, s)]]

RECURSIVE SumOver(_, _)
SumOver(f, S) ==
    IF S = {} THEN 0
    ELSE LET e == CHOOSE e \in S : TRUE IN f[e] + SumOver(f, S \ {e})

\* the weight of the outcome in which every measured qubit is 0, and the
\* total weight; their quotient is the probability of the all-zero string
zero_weight(g, amp) ==
    SumOver([s \in DOMAIN amp |-> amp[s] * amp[s]],
            {s \in DOMAIN amp : \A k \in 1..Len(g.qubits) : Bit(s, g.qubits[k]) = 0})

total_weight(amp) == SumOver([s \in DOMAIN amp |-> amp[s] * amp[s]], DOMAIN amp)

\* counts['0' * n] the sampling can give in shots shots; 0 = key absent
zero_counts(g, amp, shots) ==
    IF zero_weight(g, amp) = 0 THEN {0}
    ELSE IF zero_weight(g, amp) = total_weight(amp) THEN {shots}
    ELSE 0..shots

\* '0' * n in counts and counts['0' * n] > self.shots / 2
majority_zero(zeros, shots) == zeros >= 1 /\ 2 * zeros > shots

\* run(), up to the call of self.simulator.run(qc, shots=self.shots)
run ==
    /\ djpc = "ready"
    /\ qc' = circuit(dj)
    /\ djCircuits' = Inc(djCircuits)
    /\ djSimCalls' = Inc(djSimCalls)
    /\ psi' = [s \in 0..(2 ^ (dj.n_qubits + 1) - 1) |-> IF s = 0 THEN 1 ELSE 0]
    /\ ip' = 0
    /\ djpc' = "simulating"
    /\ UNCHANGED <<args, raised, dj, ctorCalls, classified, validated>>

\* the simulator applies the next gate of the circuit
simulator_gate ==
    /\ djpc = "simulating"
    /\ ip < Len(qc)
    /\ qc[ip + 1].gate # "measure"
    /\ psi' = apply_gate(qc[ip + 1], psi)
    /\ ip' = ip + 1
    /\ UNCHANGED <<djpc, args, raised, dj, qc, djCircuits, djSimCalls,
                   ctorCalls, classified, validated>>

\* the simulator samples the measurement; run() classifies the counts
run_classify ==
    /\ djpc = "simulating"
    /\ ip < Len(qc)
    /\ qc[ip + 1].gate = "measure"
    /\ \E zeros \in zero_counts(qc[ip + 1], psi, dj.shots) :
         classified' = IF majority_zero(zeros, dj.shots)
                       THEN "constant" ELSE "balanced"
    /\ psi' = <<>>
    /\ ip' = 0
    /\ djpc' = "ready"
    /\ UNCHANGED <<args, raised, dj, qc, djCircuits, djSimCalls, ctorCalls,
                   validated>>

get_circuit ==
    /\ djpc = "ready"
    /\ qc' = circuit(dj)
    /\ djCircuits' = Inc(djCircuits)
    /\ UNCHANGED <<djpc, args, raised, dj, psi, ip, djSimCalls, ctorCalls,
                   classified, validated>>

\* what validate_oracle returns for the object o
validate_oracle_result(o) ==
    IF o.oracle_type = "constant" THEN "constant"
    ELSE IF o.oracle_type = "balanced" THEN "balanced"
    ELSE LET ones_count == count(o.custom_bitstring, "1")
             total == Len(o.custom_bitstring)
         IN  IF ones_count = 0 \/ ones_count = total THEN "constant"
             ELSE IF ones_count = total \div 2 THEN "balanced"
             ELSE "neither"

validate_oracle ==
    /\ djpc = "ready"
    /\ validated' = validate_oracle_result(dj)
    /\ UNCHANGED <<djpc, args, raised, dj, qc, psi, ip, djCircuits,
                   djSimCalls, ctorCalls, classified>>

DJInit ==
    /\ djpc = "new"
    /\ args = NoObject
    /\ raised = ""
    /\ dj = NoObject
    /\ qc = <<>>
    /\ psi = <<>>
    /\ ip = 0
    /\ djCircuits = 0
    /\ djSimCalls = 0
    /\ ctorCalls = 0
    /\ classified = ""
    /\ validated = ""

\* no DeutschJozsaAlgorithm in the process
DJIdle ==
    /\ djpc = "idle"
    /\ args = NoObject
    /\ raised = ""
    /\ dj = NoObject
    /\ qc = <<>>
    /\ psi = <<>>
    /\ ip = 0
    /\ djCircuits = 0
    /\ djSimCalls = 0
    /\ ctorCalls = 0
    /\ classified = ""
    /\ validated = ""

\* no ShorsAlgorithm in the process
ShorIdle ==
    /\ N = 2
    /\ n = 2
    /\ pc = "idle"
    /\ a = 0
    /\ measurement = <<>>
    /\ r = 0
    /\ result = <<>>
    /\ via = ""
    /\ retries = 0
    /\ draws = 0
    /\ simCalls = 0
    /\ circuits = 0
    /\ simInAttempt = 0

\* ---------------------------------------------------------- specifications
ShorNext ==
    \/ factor_even_check /\ UNCHANGED djVars
    \/ factor_draw_base /\ UNCHANGED djVars
    \/ _quantum_period_finding /\ UNCHANGED djVars
    \/ factor_post_processing /\ UNCHANGED djVars
    \/ factor_odd_check /\ UNCHANGED djVars
    \/ factor_product_check /\ UNCHANGED djVars

\* factor() on every N in 2..MaxN
ShorStart == ShorInit /\ DJIdle

SpecShor == ShorStart /\ [][ShorNext]_vars

\* _classical_post_processing called on every N and every 2n-bit string
PostInit ==
    /\ N \in 2..MaxN
    /\ n = bit_length(N)
    /\ pc = "post"
    /\ a = 0
    /\ measurement \in Measurements(2 * n)
    /\ r = 0
    /\ result = <<>>
    /\ via = ""
    /\ retries = 0
    /\ draws = 0
    /\ simCalls = 0
    /\ circuits = 0
    /\ simInAttempt = 0

PostNext == factor_post_processing /\ UNCHANGED djVars

PostStart == PostInit /\ DJIdle

SpecPost == PostStart /\ [][PostNext]_vars

DJNext ==
    \/ __init__ /\ UNCHANGED shorVars
    \/ run /\ UNCHANGED shorVars
    \/ simulator_gate /\ UNCHANGED shorVars
    \/ run_classify /\ UNCHANGED shorVars
    \/ get_circuit /\ UNCHANGED shorVars
    \/ validate_oracle /\ UNCHANGED shorVars

\* a DeutschJozsaAlgorithm constructed on every argument list, then used
DJStart == DJInit /\ ShorIdle

SpecDJ == DJStart /\ [][DJNext]_vars

\* ------------------------------------------------------------------ claims
Odd(i) == i % 2 = 1

\* C1: whenever factor() has returned a pair, by whichever return statement
\* and after however many retries, the product of the pair is N.
C1_ProductIsN == pc = "done" => Len(result) = 2 /\ result[1] * result[2] = N

C1_Witness ==
    /\ pc = "done"
    /\ via = "period"
    /\ retries >= 2
    /\ result[1] * result[2] = N

\* C2: for even N factor() returns (2, N/2) in its first step: no base is
\* drawn, no circuit is built, the simulator is never called, nothing is
\* retried.
C2_EvenShortCircuit ==
    N % 2 = 0 =>
        /\ pc \in {"factor", "done"}
        /\ draws = 0 /\ circuits = 0 /\ simCalls = 0 /\ retries = 0
        /\ a = 0 /\ measurement = <<>>
        /\ pc = "done" => via = "even" /\ result[1] = 2 /\ 2 * result[2] = N

C2_Witness == N = 2 /\ pc = "done" /\ result = <<2, 1>> /\ simCalls = 0

\* C3: for odd N, a drawn base a with g = gcd(a, N) # 1 makes the attempt
\* return (g, N/g) with no circuit built and no simulator call in that
\* attempt; the simulator is called in an attempt only when N is odd and
\* gcd(a, N) = 1.
C3_GcdShortCircuit ==
    /\ (Odd(N) /\ a # 0 /\ gcd(a, N) # 1) =>
           /\ pc = "done" /\ via = "gcd"
           /\ result[1] = gcd(a, N) /\ result[1] * result[2] = N
           /\ simInAttempt = 0
           /\ circuits = simCalls
           /\ retries = 0 => circuits = 0
    /\ via = "gcd" => Odd(N) /\ a \in 2..(N - 1) /\ gcd(a, N) # 1
    /\ simInAttempt > 0 => Odd(N) /\ a \in 2..(N - 1) /\ gcd(a, N) = 1

C3_Witness ==
    N = 21 /\ a = 3 /\ pc = "done" /\ result = <<3, 7>> /\ circuits = 0

\* the retry conditions of an attempt whose period is bound
SpuriousFactors(base, period) ==
    LET x == pow(base, period \div 2, N)
    IN  gcd(x + 1, N) * gcd(x - 1, N) # N

\* C4: an attempt retries exactly when its period r is odd, or r is even and
\* gcd(a^(r/2) mod N + 1, N) * gcd(a^(r/2) mod N - 1, N) # N; the retry
\* starts a new frame with a, measurement and r unbound, whose base is then
\* drawn from all of [2, N-1]; an attempt calls the simulator at most once;
\* in every other case the attempt goes on or returns.
C4_RetryExactly ==
    /\ [][/\ (pc' = "factor") <=>
                \/ pc = "odd" /\ Odd(r)
                \/ pc = "factors" /\ ~Odd(r) /\ SpuriousFactors(a, r)
          /\ pc' = "factor" =>
                /\ a' = 0 /\ measurement' = <<>> /\ r' = 0
                /\ simInAttempt' = 0
          /\ pc = "odd" /\ ~Odd(r) => pc' = "factors"
          /\ pc = "factors" /\ ~SpuriousFactors(a, r) => pc' = "done"
          /\ simInAttempt' <= 1]_vars
    /\ [](pc = "draw" =>
            /\ a = 0 /\ simInAttempt = 0
            /\ \A b \in 2..(N - 1) : ENABLED (factor_draw_base /\ a' = b))

C4_Witness ==
    /\ pc = "factors"
    /\ retries >= 1
    /\ ~Odd(r)
    /\ SpuriousFactors(a, r)
    /\ simInAttempt = 1

\* the states of an execution in which the simulator always answers with
\* the all-zero string and every attempt ends in a retry
ForeverRetrying ==
    /\ Odd(N)
    /\ result = <<>>
    /\ \/ pc \in {"factor", "draw", "quantum"}
       \/ pc = "post" /\ measurement = [i \in 1..(2 * n) |-> "0"]
       \/ pc = "odd" /\ Odd(r)

\* C5: factor() has no termination bound: for odd N the call starts in a
\* state from which, whatever the number of retries so far, a step to
\* another such state is always possible (a coprime base can be drawn, the
\* simulator can answer so that the period is odd, and the retry is taken),
\* so there is an infinite execution that never returns.
C5_NoTerminationBound ==
    /\ Odd(N) /\ pc = "factor" => ForeverRetrying
    /\ ForeverRetrying => ENABLED (ShorNext /\ ForeverRetrying')

C5_Witness ==
    ForeverRetrying /\ pc = "odd" /\ retries = MaxCount /\ simCalls = MaxCount

\* the integer a string of binary digits denotes, most significant first
RECURSIVE BitsValue(_, _)
BitsValue(s, i) ==
    IF i > Len(s) THEN 0
    ELSE (IF s[i] = "1" THEN 2 ^ (Len(s) - i) ELSE 0) + BitsValue(s, i + 1)

\* p/q is at least as close to num/den as every fraction of denominator <= bound
Closest(p, q, num, den, bound) ==
    \A q2 \in 1..bound : \A p2 \in 0..q2 :
        abs(p * den - num * q) * q2 <= abs(p2 * den - num * q2) * q

C10_NontrivialFactors ==
    (pc = "done" /\ via = "period" /\ Odd(N)
        /\ \E d \in 2..(N - 1) : N % d = 0) =>
        /\ 1 < result[1] /\ result[1] < N
        /\ 1 < result[2] /\ result[2] < N

\* the category of the function the oracle specification o denotes, by
\* counting the inputs it maps to 1
FunctionCategory(o) ==
    LET size == 2 ^ o.n_qubits
        ones == IF o.oracle_type = "constant" THEN o.constant_value * size
                ELSE IF o.oracle_type = "balanced"
                THEN Cardinality({x \in 0..(size - 1) :
                        Cardinality({q \in 0..(o.n_qubits - 1) : Bit(x, q) = 1}) % 2 = 1})
                ELSE Cardinality({i \in 1..size : o.custom_bitstring[i] = "1"})
    IN  IF ones = 0 \/ ones = size THEN "constant"
        ELSE IF 2 * ones = size THEN "balanced"
        ELSE "neither"

\* C7: for an oracle whose function is constant or balanced, what run()
\* returns under ideal sampling and what validate_oracle() returns are both
\* the category of the function, so they agree.
C7_RunAgreesWithValidate ==
    (djpc \in {"ready", "simulating"} /\ FunctionCategory(dj) # "neither") =>
        /\ classified # "" => classified = FunctionCategory(dj)
        /\ validated # "" => validated = FunctionCategory(dj)
        /\ (classified # "" /\ validated # "") => classified = validated

C7_Witness ==
    /\ dj.oracle_type = "custom"
    /\ dj.n_qubits = 2
    /\ dj.custom_bitstring = <<"0", "1", "1", "0">>
    /\ classified = "balanced"
    /\ validated = "balanced"

\* the constructor was given oracle type 'custom' and a bitstring of the
\* wrong length or with a character other than '0' and '1'
BadCustomBitstring ==
    /\ ctorCalls > 0
    /\ args.oracle_type = "custom"
    /\ args.custom_bitstring # None
    /\ \/ Len(args.custom_bitstring) # 2 ^ args.n_qubits
       \/ \E i \in 1..Len(args.custom_bitstring) :
            args.custom_bitstring[i] \notin {"0", "1"}

\* C8: constructing with type 'custom' and a malformed bitstring raises in
\* the constructor: no object, no gate, no circuit, no simulator call, and
\* the constructor is not run again.
C8_MalformedCustomRaises ==
    BadCustomBitstring =>
        /\ djpc = "error"
        /\ raised # ""
        /\ dj = NoObject
        /\ qc = <<>>
        /\ djCircuits = 0
        /\ djSimCalls = 0
        /\ ctorCalls = 1
        /\ classified = "" /\ validated = ""

C8_Witness ==
    /\ BadCustomBitstring
    /\ args.n_qubits = 2
    /\ args.shots = 1
    /\ args.custom_bitstring = <<"0", "1", "2", "1">>
    /\ raised = "Custom bitstring must contain only 0 and 1"

\* the gates of qc that _create_oracle emitted
OracleGates ==
    SubSeq(qc, dj.n_qubits + 3, Len(qc) - dj.n_qubits - 1)

\* <<basis state, number of controlled flips that fired>> after the first k
\* gates of the sequence, from basis state s
RECURSIVE AfterGates(_, _, _)
AfterGates(gates, k, s) ==
    IF k = 0 THEN <<s, 0>>
    ELSE LET prev == AfterGates(gates, k - 1, s)
             g == gates[k]
             fired == IF Len(g.qubits) > 1 /\ Fires(g, prev[1]) THEN 1 ELSE 0
         IN  <<permute(g, prev[1]), prev[2] + fired>>

\* the index whose binary representation has its most significant bit on
\* input qubit 0, for basis state s of nq input qubits
RECURSIVE IndexOf(_, _, _)
IndexOf(s, nq, k) ==
    IF k = 0 THEN 0 ELSE 2 * IndexOf(s, nq, k - 1) + Bit(s, k - 1)

\* once a circuit is built, the custom oracle's gates in it act on every
\* basis state (x, y) as the claim says, with the given number of fired
\* flips for the index i of x
CustomOracleActs(fires(_)) ==
    (dj.oracle_type = "custom" /\ djpc = "ready" /\ qc # <<>>) =>
        \A s \in 0..(2 ^ (dj.n_qubits + 1) - 1) :
            LET nq == dj.n_qubits
                i == IndexOf(s, nq, nq)
                b == IF dj.custom_bitstring[i + 1] = "1" THEN 1 ELSE 0
                out == AfterGates(OracleGates, Len(OracleGates), s)
            IN  /\ \A q \in 0..(nq - 1) : Bit(out[1], q) = Bit(s, q)
                /\ Bit(out[1], nq) = (Bit(s, nq) + b) % 2
                /\ out[2] = fires(b)

ExactlyOne(b) == 1

AsManyAsTheBit(b) == b

\* C9 as stated: inputs restored, y becomes y XOR b[i], and the controlled
\* flip fires for exactly one index per input x.
C9_FiresExactlyOnce == CustomOracleActs(ExactlyOne)

\* C9, amended: inputs restored, y becomes y XOR b[i], and the controlled
\* flip fires for at most one index per input x: once, for the index i of
\* x, when b[i] = '1', and not at all when b[i] = '0'.
C9_CustomOracle == CustomOracleActs(AsManyAsTheBit)

C9_Witness ==
    /\ dj.oracle_type = "custom"
    /\ dj.n_qubits = 2
    /\ dj.custom_bitstring = <<"0", "1", "1", "1">>
    /\ djpc = "ready"
    /\ qc # <<>>
    /\ Len(OracleGates) = 7

====
